---- MODULE Spec2Model ----
(***************************************************************************)
(* A model of codebase/data-ingestion.py: class APIIngestion with its      *)
(* fetch (fetch_data), its sink (process_data, upload_to_s3) and its three *)
(* loop drivers (ingest_batch_data, ingest_historical_data,                *)
(* incremental_ingestion).                                                 *)
(*                                                                         *)
(* Python values are records [type, n, text]: n is the length of a list or *)
(* str and the value of an int.  Python strs that are compared, parsed or  *)
(* formatted (dates, timestamps, tokens) are sequences of character codes. *)
(* A dict is [isNone, items] with items a set of <<key, value>> pairs.     *)
(* An exception is the name of its class; "" is no exception.              *)
(***************************************************************************)
EXTENDS Integers, Sequences, FiniteSets, TLC

\* Number of endpoints of the configuration (config['endpoints']).
NumEndpoints == 2
\* The configured start_date / end_date lie within BaseDate + 0..MaxDays.
MaxDays == 1
\* Number of times the driver is invoked on the same APIIngestion object.
MaxRuns == 2

----------------------------------------------------------------------------
(* Python values *)

NoneV == [type |-> "None", n |-> 0, text |-> ""]
ListV(k) == [type |-> "list", n |-> k, text |-> ""]
IntV(k) == [type |-> "int", n |-> k, text |-> ""]
StrV(s, k) == [type |-> "str", n |-> k, text |-> s]

\* bool(data), the test of `if data:`.
Truthy(v) == IF v.type = "None" THEN FALSE ELSE v.n # 0

\* Whether len(data) is defined; it raises TypeError otherwise.
HasLen(v) == v.type \in {"list", "str", "dict"}

NoneDict == [isNone |-> TRUE, items |-> {}]
Dict(pairs) == [isNone |-> FALSE, items |-> pairs]

----------------------------------------------------------------------------
(* Dates and their text forms *)

Digit(d) == 48 + d
Pad2(k) == <<Digit(k \div 10), Digit(k % 10)>>
Pad4(k) == <<Digit(k \div 1000), Digit((k \div 100) % 10),
             Digit((k \div 10) % 10), Digit(k % 10)>>

IsLeap(y) == (y % 4 = 0 /\ y % 100 # 0) \/ y % 400 = 0

DaysInMonth(y, m) ==
    IF m = 2 THEN (IF IsLeap(y) THEN 29 ELSE 28)
    ELSE IF m \in {4, 6, 9, 11} THEN 30 ELSE 31

\* date + timedelta(days=1); a date is <<year, month, day>>.
AddDay(d) ==
    IF d[3] < DaysInMonth(d[1], d[2]) THEN <<d[1], d[2], d[3] + 1>>
    ELSE IF d[2] < 12 THEN <<d[1], d[2] + 1, 1>>
    ELSE <<d[1] + 1, 1, 1>>

\* date - timedelta(days=1).
SubDay(d) ==
    IF d[3] > 1 THEN <<d[1], d[2], d[3] - 1>>
    ELSE IF d[2] > 1 THEN <<d[1], d[2] - 1, DaysInMonth(d[1], d[2] - 1)>>
    ELSE <<d[1] - 1, 12, 31>>

\* strftime('%Y-%m-%d'): ten characters, '-' is 45.
StrftimeDate(d) == Pad4(d[1]) \o <<45>> \o Pad2(d[2]) \o <<45>> \o Pad2(d[3])

\* The three clock fields of a time of day given in seconds.
ClockFields(sec) == <<sec \div 3600, (sec \div 60) % 60, sec % 60>>

\* strftime('%Y-%m-%dT%H:%M:%S') of a datetime [date, sec]: 'T' is 84, ':' 58.
StrftimeIso(dt) ==
    LET f == ClockFields(dt.sec)
    IN  StrftimeDate(dt.date) \o <<84>> \o Pad2(f[1]) \o <<58>> \o Pad2(f[2])
            \o <<58>> \o Pad2(f[3])

\* strftime('%Y-%m-%d_%H-%M-%S'): '_' is 95.
StrftimeKey(dt) ==
    LET f == ClockFields(dt.sec)
    IN  StrftimeDate(dt.date) \o <<95>> \o Pad2(f[1]) \o <<45>> \o Pad2(f[2])
            \o <<45>> \o Pad2(f[3])

\* The number a run of decimal digits s[i..j] denotes.
RECURSIVE Num(_, _, _)
Num(s, i, j) == IF i > j THEN 0 ELSE 10 * Num(s, i, j - 1) + (s[j] - 48)

\* datetime.strptime(s, '%Y-%m-%d') of a well-formed s.
StrptimeDate(s) == <<Num(s, 1, 4), Num(s, 6, 7), Num(s, 9, 10)>>

\* a <= b on Python strs: lexicographic on the character codes.
RECURSIVE StrLE(_, _)
StrLE(a, b) ==
    IF a = <<>> THEN TRUE
    ELSE IF b = <<>> THEN FALSE
    ELSE IF a[1] # b[1] THEN a[1] < b[1]
    ELSE StrLE(Tail(a), Tail(b))

\* datetime.now() - timedelta(days=1).
DayBefore(dt) == [date |-> SubDay(dt.date), sec |-> dt.sec]

\* The clock one second later (datetime.now() and datetime.utcnow() read
\* the same clock: the process runs in UTC).
Tick(dt) ==
    IF dt.sec + 1 < 86400 THEN [date |-> dt.date, sec |-> dt.sec + 1]
    ELSE [date |-> AddDay(dt.date), sec |-> 0]

----------------------------------------------------------------------------
(* The HTTP boundary *)

\* The token every apikey descriptor carries: the str "tok".
Token == <<116, 111, 107>>
\* The characters of "Bearer ".
BearerPrefix == <<66, 101, 97, 114, 101, 114, 32>>

\* response.json(): the decoded body, or ok = FALSE for JSONDecodeError.
ResponseJson(body) ==
    CASE body = "[1, 2]" -> [ok |-> TRUE, val |-> ListV(2)]
      [] body = "[]"     -> [ok |-> TRUE, val |-> ListV(0)]
      [] body = "0"      -> [ok |-> TRUE, val |-> IntV(0)]
      [] body = "7"      -> [ok |-> TRUE, val |-> IntV(7)]
      [] OTHER           -> [ok |-> FALSE, val |-> NoneV]

\* len(response.text).
BodyLen(body) ==
    CASE body = "[1, 2]" -> 6
      [] body = "[]"     -> 2
      [] body = "0"      -> 1
      [] body = "7"      -> 1
      [] body = "<a/>"   -> 4
      [] OTHER           -> 0

\* response.text: the body as it came.
ResponseText(body) == StrV(body, BodyLen(body))

\* The bodies a server answers with.
Bodies == {"[1, 2]", "[]", "0", "7", "<a/>", ""}

\* What the network does to one call of fetch_data: the token exchange or
\* the GET raises, or the GET returns a response.
Outcome(token, conn, status, body) ==
    [token |-> token, conn |-> conn, status |-> status, body |-> body]

Outcomes(cfg) ==
    {Outcome("ok", "error", 0, "")}
    \cup (IF cfg.auth_type = "oauth2" THEN {Outcome("error", "ok", 0, "")} ELSE {})
    \cup {Outcome("ok", "ok", st, "[1, 2]") : st \in {201, 404}}
    \cup {Outcome("ok", "ok", 200, b) : b \in Bodies}

\* One GET as it leaves the client.
Request(cfg, auth, headers, params) ==
    [url |-> cfg.name, auth |-> auth, headers |-> headers, params |-> params]

\* Lines 44-60: the headers and query parameters of an apikey request.
ApiKeyHeaders(ap) ==
    IF "header_key" \in ap.keys
    THEN IF ap.header_key = "Bearer"
         THEN Dict({<<"Authorization", BearerPrefix \o ap.token>>})
         ELSE Dict({<<ap.header_key, ap.token>>})
    ELSE NoneDict

ApiKeyParams(ap) ==
    IF "header_key" \in ap.keys THEN NoneDict
    ELSE IF "query_param" \in ap.keys THEN Dict({<<ap.query_param, ap.token>>})
    ELSE NoneDict

\* Lines 34-64: the requests fetch_data issues, in order (none or one GET;
\* the oauth2 token exchange is not a GET to the endpoint).  No branch
\* passes the caller's params on: lines 35 and 42 leave them out and line 46
\* overwrites them.
RequestsOf(cfg, params, out) ==
    CASE cfg.auth_type = "basic" ->
            <<Request(cfg, "basic", NoneDict, NoneDict)>>
      [] cfg.auth_type = "oauth2" ->
            IF out.token = "ok"
            THEN <<Request(cfg, "bearer", NoneDict, NoneDict)>>
            ELSE <<>>
      [] cfg.auth_type = "apikey" ->
            <<Request(cfg, "none", ApiKeyHeaders(cfg.auth_params),
                      ApiKeyParams(cfg.auth_params))>>
      [] OTHER -> <<>>

\* The success test widened to every 2xx status.
StatusOK_Any2xx(status) == status \in 200..299

\* Line 67: the success test.
StatusOK(status) == status = 200

\* fetch_data(endpoint_config, params) under network outcome out:
\* error is the exception raised ("" when it returns), data the value
\* returned, requests the GETs issued, diag whether line 75 printed.
FetchData(cfg, params, out) ==
    LET reqs == RequestsOf(cfg, params, out)
        res(err, st, val, dg) ==
            [error |-> err, status |-> st, data |-> val, requests |-> reqs,
             diag |-> dg]
    IN  IF cfg.auth_type \notin {"basic", "oauth2", "apikey"}
        THEN res("ValueError", 0, NoneV, FALSE)
        ELSE IF cfg.auth_type = "oauth2" /\ out.token # "ok"
        THEN res("OAuth2Error", 0, NoneV, FALSE)
        ELSE IF out.conn # "ok"
        THEN res("ConnectionError", 0, NoneV, FALSE)
        ELSE IF StatusOK(out.status)
        THEN IF cfg.format = "json"
             THEN IF ResponseJson(out.body).ok
                  THEN res("", out.status, ResponseJson(out.body).val, FALSE)
                  ELSE res("JSONDecodeError", out.status, NoneV, FALSE)
             ELSE IF cfg.format = "xml"
             THEN res("", out.status, ResponseText(out.body), FALSE)
             ELSE res("", out.status, NoneV, FALSE)
        ELSE res("", out.status, NoneV, TRUE)

----------------------------------------------------------------------------
(* The sink *)

\* json.dumps(data).
JsonDumps(v) ==
    CASE v.type = "list" -> IF v.n = 0 THEN "[]" ELSE "[1, 2]"
      [] v.type = "int"  -> IF v.n = 0 THEN "0" ELSE "7"
      [] v.type = "str"  -> "\"" \o v.text \o "\""
      [] OTHER           -> "null"

\* upload_to_s3 without its try: the error of put_object leaves it.
UploadToS3_NoTry(data, file_name, putOK) ==
    IF putOK
    THEN [error |-> "", attempts |-> 1,
          stored |-> {[key |-> file_name, body |-> JsonDumps(data)]},
          logged |-> FALSE]
    ELSE [error |-> "ClientError", attempts |-> 1, stored |-> {},
          logged |-> FALSE]

\* upload_to_s3(data, file_name), with the four S3_* environment variables
\* set; putOK tells whether put_object succeeds.  error is the exception
\* that leaves the function, attempts the put_object calls made, stored the
\* objects written, logged whether the except clause of line 99 ran.
UploadToS3(data, file_name, putOK) ==
    IF putOK
    THEN [error |-> "", attempts |-> 1,
          stored |-> {[key |-> file_name, body |-> JsonDumps(data)]},
          logged |-> FALSE]
    ELSE [error |-> "", attempts |-> 1, stored |-> {}, logged |-> TRUE]

\* The object key of line 113: "{endpoint}/{timestamp}.json".
FileName(endpoint, dt) == [prefix |-> endpoint, stamp |-> StrftimeKey(dt)]

\* process_data(endpoint, data) at time dt.
ProcessData(endpoint, data, dt, putOK) ==
    IF ~HasLen(data)
    THEN [error |-> "TypeError", attempts |-> 0, stored |-> {}, logged |-> FALSE]
    ELSE UploadToS3(data, FileName(endpoint, dt), putOK)

\* No call of process_data.
NoProcess == [error |-> "", attempts |-> 0, stored |-> {}, logged |-> FALSE]

----------------------------------------------------------------------------
(* The configuration *)

Absent == [present |-> FALSE, val |-> <<>>]
Present(v) == [present |-> TRUE, val |-> v]

\* endpoint_config.get('last_run'): absent, or a datetime object.
NoLastRun == [type |-> "absent", dt |-> [date |-> <<0, 0, 0>>, sec |-> 0], text |-> <<>>]
DatetimeObj(dt) == [type |-> "datetime", dt |-> dt, text |-> <<>>]
StrObj(s) == [type |-> "str", dt |-> [date |-> <<0, 0, 0>>, sec |-> 0], text |-> s]

AuthParams(keys, header_key, query_param, token) ==
    [keys |-> keys, header_key |-> header_key, query_param |-> query_param,
     token |-> token]

\* The auth_type / auth_params shapes of a descriptor: the four the code
\* names, an apikey descriptor with neither header_key nor query_param, and a
\* type the code does not know.
AuthBasic ==
    [auth_type |-> "basic",
     auth_params |-> AuthParams({"username", "password"}, "", "", <<>>)]
AuthOAuth2 ==
    [auth_type |-> "oauth2",
     auth_params |-> AuthParams({"client_id", "client_secret", "token_url"},
                                "", "", <<>>)]
AuthBearerKey ==
    [auth_type |-> "apikey",
     auth_params |-> AuthParams({"header_key", "token"}, "Bearer", "", Token)]
AuthHeaderKey ==
    [auth_type |-> "apikey",
     auth_params |-> AuthParams({"header_key", "token"}, "X-API-Key", "", Token)]
AuthQueryKey ==
    [auth_type |-> "apikey",
     auth_params |-> AuthParams({"query_param", "token"}, "", "api_key", Token)]
AuthBareKey ==
    [auth_type |-> "apikey",
     auth_params |-> AuthParams({"token"}, "", "", Token)]
AuthDigest ==
    [auth_type |-> "digest",
     auth_params |-> AuthParams({"username", "password"}, "", "", <<>>)]

AuthShapes == {AuthBasic, AuthOAuth2, AuthBearerKey, AuthHeaderKey,
               AuthQueryKey, AuthBareKey, AuthDigest}

Formats == {"json", "xml", "csv"}

EndpointNames == <<"ep1", "ep2", "ep3", "ep4">>

\* The clock when the process starts: 2024-03-01 12:00:00.
ClockStart == [date |-> <<2024, 3, 1>>, sec |-> 43200]

\* The first date a descriptor may name; the range crosses a leap day.
BaseDate == <<2024, 2, 27>>

RECURSIVE DateAt(_)
DateAt(k) == IF k = 0 THEN BaseDate ELSE AddDay(DateAt(k - 1))

ConfigDates == {StrftimeDate(DateAt(k)) : k \in 0..MaxDays}

Modes == {"batch", "historical", "incremental"}

\* How an endpoint authenticates and what it answers with.
Shape(a, f) == [auth_type |-> a.auth_type, auth_params |-> a.auth_params,
                format |-> f]

\* The shapes the endpoints of a configuration are drawn from: under the
\* batch driver every auth shape and every format, under the other two
\* drivers a shape of each kind of fetch (one that returns a parsed body, one
\* that returns text, one that sends no credentials, one that raises).
Shapes(m) ==
    IF m = "batch"
    THEN {Shape(a, "json") : a \in AuthShapes}
            \cup {Shape(AuthBasic, f) : f \in Formats}
    ELSE IF m = "historical"
    THEN {Shape(AuthBasic, "json"), Shape(AuthQueryKey, "xml"),
          Shape(AuthDigest, "json")}
    ELSE {Shape(AuthBasic, "json"), Shape(AuthOAuth2, "xml"),
          Shape(AuthBareKey, "json"), Shape(AuthDigest, "json")}

\* The optional fields of the descriptors.  A driver reads only its own
\* (the batch driver none, the historical driver start_date and end_date,
\* the incremental driver last_run), so the others are left out; the
\* endpoints of one configuration share the backfill window and the cursor
\* they start with.
StartDates(m) ==
    IF m = "historical" THEN {Present(d) : d \in ConfigDates} \cup {Absent}
    ELSE {Absent}

EndDates(m) ==
    IF m = "historical" THEN {Present(d) : d \in ConfigDates} \cup {Absent}
    ELSE {Absent}

LastRuns(m) ==
    IF m = "incremental" THEN {NoLastRun, DatetimeObj(DayBefore(ClockStart))}
    ELSE {NoLastRun}

\* The descriptor of the i-th endpoint.
Endpoint(i, shape, s, e, l) ==
    [name |-> EndpointNames[i], auth_type |-> shape.auth_type,
     auth_params |-> shape.auth_params, format |-> shape.format,
     start_date |-> s, end_date |-> e, last_run |-> l]

----------------------------------------------------------------------------
(* The drivers *)

VARIABLES
    mode,        \* the driver this process runs
    endpoints,   \* self.endpoints, in iteration order
    now,         \* the clock
    runs,        \* invocations of the driver so far
    pc,          \* "idle", "for", "while", "done" or "raised"
    idx,         \* position of the for loop in self.endpoints
    cur,         \* start_date and end_date of ingest_historical_data
    error,       \* the exception that left the driver, "" if none
    cycle,       \* what the last fetch-and-persist cycle did
    fetchCount,  \* calls of fetch_data per endpoint, this invocation
    dates        \* the date params fetched for the current endpoint

vars == <<mode, endpoints, now, runs, pc, idx, cur, error, cycle, fetchCount,
          dates>>

N == Len(endpoints)

NoFetch == [error |-> "", status |-> 0, data |-> NoneV, requests |-> <<>>,
            diag |-> FALSE]

NoRange == [start |-> Absent, end |-> <<>>]

\* The record of one cycle: the endpoint, whether fetch_data was called and
\* with which params, what it did, whether process_data was called and what
\* it did, and the endpoint's last_run before and after.
Cycle(i, called, params, f, processed, p, before, after) ==
    [ep |-> i, called |-> called, params |-> params, fetch |-> f,
     processed |-> processed, sink |-> p, before |-> before, after |-> after]

NoCycle == Cycle(0, FALSE, NoneDict, NoFetch, FALSE, NoProcess, NoLastRun,
                 NoLastRun)

Init ==
    /\ mode \in Modes
    /\ \E s \in StartDates(mode), e \in EndDates(mode), l \in LastRuns(mode),
          d \in [1..NumEndpoints -> Shapes(mode)] :
         endpoints = [i \in 1..NumEndpoints |-> Endpoint(i, d[i], s, e, l)]
    /\ now = ClockStart
    /\ runs = 0
    /\ pc = "idle"
    /\ idx = 0
    /\ cur = NoRange
    /\ error = ""
    /\ cycle = NoCycle
    /\ fetchCount = [i \in 1..NumEndpoints |-> 0]
    /\ dates = <<>>

\* The caller invokes the driver: at first, and again after it returned
\* (an exception that leaves the driver ends the process, as in __main__).
\* Only incremental_ingestion leaves anything behind in self, so only it is
\* invoked again.
Invoke ==
    /\ pc \in {"idle", "done"}
    /\ runs < MaxRuns
    /\ runs = 0 \/ mode = "incremental"
    /\ runs' = runs + 1
    /\ pc' = "for"
    /\ idx' = 1
    /\ cur' = NoRange
    /\ error' = ""
    /\ cycle' = NoCycle
    /\ fetchCount' = [i \in 1..N |-> 0]
    /\ dates' = <<>>
    /\ UNCHANGED <<mode, endpoints, now>>

\* The for loop is exhausted: the driver returns.
Return ==
    /\ pc = "for"
    /\ idx > N
    /\ pc' = "done"
    /\ UNCHANGED <<mode, endpoints, now, runs, idx, cur, error, cycle,
                   fetchCount, dates>>

\* Lines 123-125, 139-141, 153-155: data = self.fetch_data(...) and, if
\* data, self.process_data(endpoint, data).  A fetch takes a second and so
\* does an upload.
FetchAndProcess(i, params, out, putOK) ==
    LET f == FetchData(endpoints[i], params, out)
        t == Tick(now)
        processed == f.error = "" /\ Truthy(f.data)
        p == IF processed
             THEN ProcessData(endpoints[i].name, f.data, t, putOK)
             ELSE NoProcess
    IN  [fetch |-> f, processed |-> processed, sink |-> p,
         error |-> IF f.error # "" THEN f.error ELSE p.error,
         now |-> IF processed /\ p.attempts > 0 THEN Tick(t) ELSE t]

\* The outcomes of put_object in a cycle: it succeeds or raises where it
\* is called, and there is nothing to choose where it is not.
PutOutcomes(i, params, out) ==
    IF FetchAndProcess(i, params, out, TRUE).sink.attempts > 0
    THEN BOOLEAN ELSE {TRUE}

\* One iteration of the for loop of ingest_batch_data.
BatchCycle ==
    /\ mode = "batch"
    /\ pc = "for"
    /\ idx <= N
    /\ \E out \in Outcomes(endpoints[idx]) :
       \E putOK \in PutOutcomes(idx, NoneDict, out) :
         LET r == FetchAndProcess(idx, NoneDict, out, putOK)
         IN  /\ cycle' = Cycle(idx, TRUE, NoneDict, r.fetch, r.processed, r.sink,
                               endpoints[idx].last_run, endpoints[idx].last_run)
             /\ now' = r.now
             /\ error' = r.error
             /\ pc' = IF r.error = "" THEN "for" ELSE "raised"
             /\ idx' = IF r.error = "" THEN idx + 1 ELSE idx
    /\ fetchCount' = [fetchCount EXCEPT ![idx] = @ + 1]
    /\ UNCHANGED <<mode, endpoints, runs, cur, dates>>

\* Lines 133-135: the for loop of ingest_historical_data takes the next
\* endpoint and reads its start_date and end_date (today, if absent).
HistoricalEnter ==
    /\ mode = "historical"
    /\ pc = "for"
    /\ idx <= N
    /\ cur' = [start |-> endpoints[idx].start_date,
               end |-> IF endpoints[idx].end_date.present
                       THEN endpoints[idx].end_date.val
                       ELSE StrftimeDate(now.date)]
    /\ dates' = <<>>
    /\ pc' = "while"
    /\ UNCHANGED <<mode, endpoints, now, runs, idx, error, cycle, fetchCount>>

\* Line 137 finds start_date > end_date: on to the next endpoint.
HistoricalExit ==
    /\ mode = "historical"
    /\ pc = "while"
    /\ cur.start.present
    /\ ~StrLE(cur.start.val, cur.end)
    /\ pc' = "for"
    /\ idx' = idx + 1
    /\ UNCHANGED <<mode, endpoints, now, runs, cur, error, cycle, fetchCount,
                   dates>>

\* Lines 137-142: one iteration of the while loop.  Comparing an absent
\* start_date (None) with a str raises TypeError.
HistoricalCycle ==
    /\ mode = "historical"
    /\ pc = "while"
    /\ IF ~cur.start.present
       THEN /\ error' = "TypeError"
            /\ pc' = "raised"
            /\ UNCHANGED <<now, cur, cycle, fetchCount, dates>>
       ELSE /\ StrLE(cur.start.val, cur.end)
            /\ \E out \in Outcomes(endpoints[idx]) :
               \E putOK \in PutOutcomes(idx, Dict({<<"date", cur.start.val>>}), out) :
                 LET params == Dict({<<"date", cur.start.val>>})
                     r == FetchAndProcess(idx, params, out, putOK)
                 IN  /\ cycle' = Cycle(idx, TRUE, params, r.fetch, r.processed,
                                       r.sink, endpoints[idx].last_run,
                                       endpoints[idx].last_run)
                     /\ now' = r.now
                     /\ error' = r.error
                     /\ pc' = IF r.error = "" THEN "while" ELSE "raised"
                     /\ cur' = IF r.error = ""
                               THEN [cur EXCEPT !.start = Present(StrftimeDate(
                                        AddDay(StrptimeDate(cur.start.val))))]
                               ELSE cur
            /\ fetchCount' = [fetchCount EXCEPT ![idx] = @ + 1]
            /\ dates' = Append(dates, cur.start.val)
    /\ UNCHANGED <<mode, endpoints, runs, idx>>

\* Lines 150-156: one iteration of the for loop of incremental_ingestion.
\* last_run.strftime raises AttributeError when last_run is a str.
IncrementalCycle ==
    /\ mode = "incremental"
    /\ pc = "for"
    /\ idx <= N
    /\ LET before == endpoints[idx].last_run
           last_run == IF before.type = "absent"
                       THEN DatetimeObj(DayBefore(now))
                       ELSE before
           params == Dict({<<"since", StrftimeIso(last_run.dt)>>})
       IN  IF last_run.type # "datetime"
           THEN /\ cycle' = Cycle(idx, FALSE, NoneDict, NoFetch, FALSE, NoProcess,
                                  before, before)
                /\ error' = "AttributeError"
                /\ pc' = "raised"
                /\ UNCHANGED <<endpoints, now, idx, fetchCount>>
           ELSE \E out \in Outcomes(endpoints[idx]) :
                \E putOK \in PutOutcomes(idx, params, out) :
                 LET r == FetchAndProcess(idx, params, out, putOK)
                     after == IF r.processed /\ r.error = ""
                              THEN StrObj(StrftimeIso(r.now))
                              ELSE before
                 IN  /\ cycle' = Cycle(idx, TRUE, params, r.fetch, r.processed,
                                       r.sink, before, after)
                     /\ endpoints' = [endpoints EXCEPT ![idx].last_run = after]
                     /\ now' = r.now
                     /\ error' = r.error
                     /\ pc' = IF r.error = "" THEN "for" ELSE "raised"
                     /\ idx' = IF r.error = "" THEN idx + 1 ELSE idx
                     /\ fetchCount' = [fetchCount EXCEPT ![idx] = @ + 1]
    /\ UNCHANGED <<mode, runs, cur, dates>>

Next ==
    \/ Invoke
    \/ Return
    \/ BatchCycle
    \/ HistoricalEnter
    \/ HistoricalExit
    \/ HistoricalCycle
    \/ IncrementalCycle

Spec == Init /\ [][Next]_vars


----------------------------------------------------------------------------
(* The claims *)

\* The last cycle called put_object and put_object raised.
PutFailed == cycle.sink.attempts > 0 /\ cycle.sink.stored = {}

\* The last cycle's fetch came back with an HTTP response.
Responded == cycle.called /\ cycle.fetch.status # 0

\* C1: in one invocation of the batch driver a fetch failure, a non-200
\* response or an error thrown by the transport during the GET, keeps no
\* later endpoint from being fetched: when the driver is left, by returning
\* or by the transport's error, every endpoint has been fetched exactly once.
C1_FetchFailureIsolated ==
    (mode = "batch" /\ (pc = "done" \/ (pc = "raised" /\ error = "ConnectionError")))
        => \A i \in 1..N : fetchCount[i] = 1

\* C2: the unsupported-type error of fetch_data never ends a driver run:
\* no driver is left by ValueError.
C2_UnsupportedTypeSkipped ==
    ~(pc = "raised" /\ error = "ValueError")

\* Days from 2000-01-01 to a date, by counting.
RECURSIVE DaysBeforeYear(_)
DaysBeforeYear(y) ==
    IF y <= 2000 THEN 0
    ELSE DaysBeforeYear(y - 1) + (IF IsLeap(y - 1) THEN 366 ELSE 365)

RECURSIVE DaysBeforeMonth(_, _)
DaysBeforeMonth(y, m) ==
    IF m <= 1 THEN 0 ELSE DaysBeforeMonth(y, m - 1) + DaysInMonth(y, m - 1)

Ordinal(d) == DaysBeforeYear(d[1]) + DaysBeforeMonth(d[1], d[2]) + d[3]

\* The endpoint the historical driver worked on last, once it is through
\* with it: its while loop was left, normally or by the transport's or the
\* unsupported-type error of fetch_data.
Backfilled ==
    IF pc = "for" /\ idx > 1 THEN idx - 1
    ELSE IF pc = "done" THEN N
    ELSE IF pc = "raised" /\ cycle.fetch.error \in {"ConnectionError", "ValueError"}
         THEN idx
    ELSE 0

\* The fetched dates are exactly the days from start to end, ascending.
EveryDayOnce(start, end, fetched) ==
    LET first == Ordinal(StrptimeDate(start))
        last == Ordinal(StrptimeDate(end))
    IN  /\ Len(fetched) = (IF last >= first THEN last - first + 1 ELSE 0)
        /\ \A k \in 1..Len(fetched) :
             /\ Ordinal(StrptimeDate(fetched[k])) = first + k - 1
             /\ fetched[k] = StrftimeDate(StrptimeDate(fetched[k]))

\* C3: for an endpoint with start_date and end_date, the historical driver
\* fetches exactly once per calendar day from start_date to end_date, in
\* ascending order, each call with params = {date: that day}, and stops.
C3_BackfillFetchesEveryDay ==
    (mode = "historical" /\ Backfilled # 0
        /\ endpoints[Backfilled].start_date.present
        /\ endpoints[Backfilled].end_date.present)
        => /\ EveryDayOnce(endpoints[Backfilled].start_date.val,
                           endpoints[Backfilled].end_date.val, dates)
           /\ fetchCount[Backfilled] = Len(dates)

\* C4: whenever the response status is not 200, fetch_data returns None,
\* and no cycle whose fetch returned None calls process_data or put_object.
C4_Non200YieldsNoData ==
    /\ (Responded /\ cycle.fetch.status # 200)
          => (cycle.fetch.error = "" /\ cycle.fetch.data = NoneV /\ cycle.fetch.diag)
    /\ (cycle.called /\ cycle.fetch.error = "" /\ cycle.fetch.data = NoneV)
          => (~cycle.processed /\ cycle.sink = NoProcess)

\* A 201 answered to an authenticated request of the incremental driver.
C4_Witness ==
    /\ mode = "incremental"
    /\ Responded
    /\ cycle.fetch.status = 201
    /\ endpoints[cycle.ep].auth_type = "oauth2"
    /\ cycle.fetch.data = NoneV
    /\ ~cycle.processed

\* C5: the incremental driver changes an endpoint's last_run only in that
\* endpoint's cycle, and only if the fetch returned a result and the write
\* to object storage succeeded.
C5_LastRunOnlyOnSuccess ==
    [][\A i \in 1..N :
          endpoints'[i].last_run # endpoints[i].last_run
             => /\ cycle'.ep = i
                /\ cycle'.fetch.error = ""
                /\ cycle'.fetch.data # NoneV
                /\ cycle'.sink.stored # {}]_vars

\* C6: the GET of fetch_data carries every key and value of the caller's
\* params as query parameters.
C6_ParamsReachServer ==
    (cycle.called /\ ~cycle.params.isNone)
        => \A k \in 1..Len(cycle.fetch.requests) :
              cycle.params.items \subseteq cycle.fetch.requests[k].params.items

\* A request carries the token, in a header or in a query parameter.
CarriesToken(req) ==
    \E p \in req.headers.items \cup req.params.items :
        p[2] \in {Token, BearerPrefix \o Token}

\* C7: no GET is sent for an apikey endpoint without the token in a header
\* or a query parameter; a descriptor with neither shape fails instead.
C7_ApiKeyAlwaysAttached ==
    (cycle.called /\ endpoints[cycle.ep].auth_type = "apikey")
        => /\ \A k \in 1..Len(cycle.fetch.requests) :
                CarriesToken(cycle.fetch.requests[k])
           /\ (endpoints[cycle.ep].auth_params.keys
                  \cap {"header_key", "query_param"} = {})
                 => (cycle.fetch.requests = <<>> /\ cycle.fetch.error # "")

C9_EverySuccessPersisted ==
    (Responded /\ cycle.fetch.error = "" /\ cycle.fetch.status = 200
        /\ endpoints[cycle.ep].format \in {"json", "xml"})
        => cycle.processed

\* The since a stored last_run yields when read back.
SinceOf(l) == IF l.type = "datetime" THEN StrftimeIso(l.dt) ELSE l.text

\* C10: a cycle of the incremental driver for an endpoint that has a
\* last_run fetches with since equal to that last_run.
C10_LastRunReadBack ==
    (mode = "incremental" /\ cycle.ep # 0 /\ cycle.before.type # "absent")
        => /\ cycle.called
           /\ cycle.params = Dict({<<"since", SinceOf(cycle.before)>>})

====
